---- MODULE Spec2Model ----
(***************************************************************************)
(* Model of the autosuggestion engines of RBeaudet/Utils:                  *)
(*   src/autosuggestion/simple_suggesters.py                               *)
(*       BruteForceSuggester, BinarySearchSuggester                        *)
(*   src/autosuggestion/ngrams_suggesters.py                               *)
(*       EdgeNGramSuggester, ngrams, NGramSuggester                        *)
(*                                                                         *)
(* A Python str is a sequence of code points (integers); "_" is 95,        *)
(* "a" is 97, "b" is 98.  A Python list is a sequence, a dict is a         *)
(* function whose DOMAIN is the set of keys present.  A generator is       *)
(* modelled by the list of everything it yields when fully consumed.       *)
(***************************************************************************)
EXTENDS Integers, Sequences, FiniteSets, TLC

VARIABLES
    brute,              \* BruteForceSuggester.data
    binary,             \* BinarySearchSuggester.data
    edge,               \* EdgeNGramSuggester.data
    ngram,              \* NGramSuggester.data
    ngram_size,         \* NGramSuggester.ngram_size
    corpus,             \* history: every string passed to index so far, in order
    op,                 \* the operation that ran last
    suggestions,        \* argument of the last index call
    prefix,             \* argument of the last search call
    match_percentage,   \* argument of the last NGramSuggester search, <<num, den>>
    max_edit_distance,  \* argument of the last fuzzy search
    text,               \* arguments of the ngrams call
    size,
    sentinel,
    out,                \* what the last call yielded, in order
    err                 \* the exception the last call raised, "none" if none

vars == <<brute, binary, edge, ngram, ngram_size, corpus, op, suggestions, prefix,
          match_percentage, max_edit_distance, text, size, sentinel, out, err>>

-----------------------------------------------------------------------------
(* Bounds of the model *)

MaxLen == 2
MaxCorpus == 2
MaxSize == 3
NGMaxLen == 3
NGMaxCorpus == 2

(* Program constants *)

Underscore == 95
DefaultNGramSize == 2
DefaultBruteDistance == 1
DefaultNGramDistance == 3

Alphabet == {97, 98}

StringsUpTo(n) == UNION {[1..k -> Alphabet] : k \in 0..n}
Strings == StringsUpTo(MaxLen)
NGStrings == StringsUpTo(NGMaxLen)
BatchesUpTo(S, n) == UNION {[1..k -> S] : k \in 0..n}

\* 0.0, 0.5, 0.9 (the default) and 1.0 as exact fractions
MatchPercentages == {<<0, 1>>, <<1, 2>>, <<9, 10>>, <<1, 1>>}
Sizes == (0 - MaxSize)..MaxSize
Sentinels == {<<Underscore>>, <<97>>}

-----------------------------------------------------------------------------
(* Python built-ins *)

Min(a, b) == IF a < b THEN a ELSE b
Max(a, b) == IF a > b THEN a ELSE b

ToSet(xs) == {xs[i] : i \in 1..Len(xs)}

\* s[lo:hi]: negative indices count from the end, both are clamped to [0, len]
PySlice(s, lo, hi) ==
    LET n == Len(s)
        a == IF lo < 0 THEN Max(lo + n, 0) ELSE Min(lo, n)
        b == IF hi < 0 THEN Max(hi + n, 0) ELSE Min(hi, n)
    IN  IF a >= b THEN <<>> ELSE SubSeq(s, a + 1, b)

\* s * n: n copies of s, none when n <= 0
RECURSIVE PyRepeat(_, _)
PyRepeat(s, n) == IF n <= 0 THEN <<>> ELSE s \o PyRepeat(s, n - 1)

\* s.startswith(p)
StartsWith(s, p) == Len(p) <= Len(s) /\ SubSeq(s, 1, Len(p)) = p

\* s < t on str: code point order, a proper prefix is smaller
RECURSIVE StrLess(_, _)
StrLess(s, t) ==
    IF t = <<>> THEN FALSE
    ELSE IF s = <<>> THEN TRUE
    ELSE IF Head(s) # Head(t) THEN Head(s) < Head(t)
    ELSE StrLess(Tail(s), Tail(t))

\* list.sort(): stable, ascending
RECURSIVE InsertSorted(_, _)
InsertSorted(xs, x) ==
    IF xs = <<>> THEN <<x>>
    ELSE IF StrLess(x, Head(xs)) THEN <<x>> \o xs
    ELSE <<Head(xs)>> \o InsertSorted(Tail(xs), x)

RECURSIVE ListSort(_)
ListSort(xs) ==
    IF xs = <<>> THEN <<>>
    ELSE InsertSorted(ListSort(SubSeq(xs, 1, Len(xs) - 1)), xs[Len(xs)])

\* bisect.bisect_left(a, x), lo and hi 0-based
RECURSIVE BisectLoop(_, _, _, _)
BisectLoop(a, x, lo, hi) ==
    IF lo < hi
    THEN LET mid == (lo + hi) \div 2
         IN  IF StrLess(a[mid + 1], x) THEN BisectLoop(a, x, mid + 1, hi)
                                        ELSE BisectLoop(a, x, lo, mid)
    ELSE lo

\* bisect_right: the variant that steps over entries equal to x
RECURSIVE BisectRightLoop(_, _, _, _)
BisectRightLoop(a, x, lo, hi) ==
    IF lo < hi
    THEN LET mid == (lo + hi) \div 2
         IN  IF StrLess(x, a[mid + 1]) THEN BisectRightLoop(a, x, lo, mid)
                                        ELSE BisectRightLoop(a, x, mid + 1, hi)
    ELSE lo

BisectRight(a, x) == BisectRightLoop(a, x, 0, Len(a))

BisectLeft(a, x) == BisectLoop(a, x, 0, Len(a))

\* Levenshtein.distance(a, b)
RECURSIVE Distance(_, _)
Distance(a, b) ==
    IF a = <<>> THEN Len(b)
    ELSE IF b = <<>> THEN Len(a)
    ELSE IF Head(a) = Head(b) THEN Distance(Tail(a), Tail(b))
    ELSE 1 + Min(Distance(Tail(a), Tail(b)),
                 Min(Distance(Tail(a), b), Distance(a, Tail(b))))

\* dict of lists: d[k] = [s] when k is absent, d[k].append(s) otherwise
EmptyDict == [k \in {} |-> <<>>]

DictAppend(d, k, s) ==
    IF k \in DOMAIN d THEN [d EXCEPT ![k] = Append(@, s)]
    ELSE d @@ (k :> <<s>>)

\* d.get(k, [])
DictGet(d, k) == IF k \in DOMAIN d THEN d[k] ELSE <<>>

-----------------------------------------------------------------------------
(* BruteForceSuggester *)

\* an index that replaces the list
BruteIndexReplace(data, sugg) == sugg

BruteIndex(data, sugg) == data \o sugg

BruteSearch(data, p) == SelectSeq(data, LAMBDA s : StartsWith(s, p))

\* a fuzzy search that compares the prefix with the whole entry
BruteSearchWholeEntry(data, p, d) ==
    SelectSeq(data, LAMBDA s : Distance(p, s) <= d)

BruteSearchLeveinshtein(data, p, d) ==
    LET length == Len(p)
    IN  SelectSeq(data, LAMBDA s : Distance(p, PySlice(s, 0, length)) <= d)

-----------------------------------------------------------------------------
(* BinarySearchSuggester *)

\* an index that forgets to sort
BinaryIndexNoSort(data, sugg) == data \o sugg

BinaryIndex(data, sugg) == ListSort(data \o sugg)

\* the for loop of search: yield while the entry starts with p, break otherwise
RECURSIVE ScanWhile(_, _)
ScanWhile(xs, p) ==
    IF xs = <<>> THEN <<>>
    ELSE IF StartsWith(Head(xs), p) THEN <<Head(xs)>> \o ScanWhile(Tail(xs), p)
    ELSE <<>>

BinarySearch(data, p) ==
    LET start_position == BisectLeft(data, p)
    IN  ScanWhile(PySlice(data, start_position, Len(data)), p)

-----------------------------------------------------------------------------
(* EdgeNGramSuggester *)

\* the inner loop of index: i in range(len(s)) from i on, ngram = s[0:i + 1]
RECURSIVE EdgeAddPrefixes(_, _, _, _)
EdgeAddPrefixes(data, s, i, n) ==
    IF i >= n THEN data
    ELSE EdgeAddPrefixes(DictAppend(data, PySlice(s, 0, i + 1), s), s, i + 1, n)

\* an index whose inner loop stops one prefix short: range(len(s) - 1)
RECURSIVE EdgeIndexShort(_, _)
EdgeIndexShort(data, sugg) ==
    IF sugg = <<>> THEN data
    ELSE EdgeIndexShort(EdgeAddPrefixes(data, Head(sugg), 0, Len(Head(sugg)) - 1),
                        Tail(sugg))

RECURSIVE EdgeIndexLoop(_, _)
EdgeIndexLoop(data, sugg) ==
    IF sugg = <<>> THEN data
    ELSE EdgeIndexLoop(EdgeAddPrefixes(data, Head(sugg), 0, Len(Head(sugg))),
                       Tail(sugg))

EdgeIndex(data, sugg) == EdgeIndexLoop(data, sugg)

\* a search that returns the bucket in sorted order
EdgeSearchSorted(data, p) == IF p \in DOMAIN data THEN ListSort(data[p]) ELSE <<>>

EdgeSearch(data, p) == IF p \in DOMAIN data THEN data[p] ELSE <<>>

-----------------------------------------------------------------------------
(* ngrams *)

\* a tokenizer that pads with size sentinels
NGramsPadFull(t, n, sent) ==
    LET padded == PyRepeat(sent, n) \o t
        length == Len(padded)
        end    == length - n + 1
    IN  [i \in 1..Max(end, 0) |-> PySlice(padded, i - 1, i - 1 + n)]

NGrams(t, n, sent) ==
    LET padding == PyRepeat(sent, n - 1)
        padded  == padding \o t
        length  == Len(padded)
        end     == length - n + 1
    IN  [i \in 1..Max(end, 0) |-> PySlice(padded, i - 1, i - 1 + n)]

-----------------------------------------------------------------------------
(* NGramSuggester *)

RECURSIVE NGramAddGrams(_, _, _)
NGramAddGrams(data, s, grams) ==
    IF grams = <<>> THEN data
    ELSE NGramAddGrams(DictAppend(data, Head(grams), s), s, Tail(grams))

RECURSIVE NGramIndexLoop(_, _, _)
NGramIndexLoop(data, sugg, n) ==
    IF sugg = <<>> THEN data
    ELSE NGramIndexLoop(
             NGramAddGrams(data, Head(sugg), NGrams(Head(sugg), n, <<Underscore>>)),
             Tail(sugg), n)

NGramIndex(data, sugg, n) == NGramIndexLoop(data, sugg, n)

\* the suggestions dict of search: keys in insertion order, and their counts
EmptyTally == [order |-> <<>>, count |-> EmptyDict]

TallyOne(t, s) ==
    IF s \in DOMAIN t.count
    THEN [t EXCEPT !.count[s] = @ + 1]
    ELSE [order |-> Append(t.order, s), count |-> t.count @@ (s :> 1)]

RECURSIVE TallyBucket(_, _)
TallyBucket(t, bucket) ==
    IF bucket = <<>> THEN t ELSE TallyBucket(TallyOne(t, Head(bucket)), Tail(bucket))

RECURSIVE TallyGrams(_, _, _)
TallyGrams(t, data, grams) ==
    IF grams = <<>> THEN t
    ELSE TallyGrams(TallyBucket(t, DictGet(data, Head(grams))), data, Tail(grams))

\* gram_count * 1.0 / total_grams > match_percentage, for total_grams > 0
Exceeds(gram_count, total_grams, mp) == gram_count * mp[2] > mp[1] * total_grams

\* the division raises as soon as a candidate is scored with total_grams = 0
NGramSearch(data, n, p, mp) ==
    LET grams       == NGrams(p, n, <<Underscore>>)
        total_grams == Len(grams)
        t           == TallyGrams(EmptyTally, data, grams)
    IN  IF t.order # <<>> /\ total_grams = 0
        THEN [out |-> <<>>, err |-> "ZeroDivisionError"]
        ELSE [out |-> SelectSeq(t.order,
                          LAMBDA s : Exceeds(t.count[s], total_grams, mp)),
              err |-> "none"]

NGramSearchLeveinshtein(data, n, p, mp, d) ==
    LET grams       == NGrams(p, n, <<Underscore>>)
        total_grams == Len(grams)
        t           == TallyGrams(EmptyTally, data, grams)
    IN  IF t.order # <<>> /\ total_grams = 0
        THEN [out |-> <<>>, err |-> "ZeroDivisionError"]
        ELSE [out |-> SelectSeq(t.order,
                          LAMBDA s : /\ Exceeds(t.count[s], total_grams, mp)
                                     /\ Distance(p, PySlice(s, 0, Len(p))) < d),
              err |-> "none"]

-----------------------------------------------------------------------------
(* Calls.  Both modules are single-threaded and every call runs to         *)
(* completion, so one call is made at a time: op is "idle" between calls,  *)
(* a search leaves its arguments and what it yielded in prefix, ..., out   *)
(* and err, and Return is the caller dropping them.  index returns None,   *)
(* its whole effect is on the data of the suggester.                       *)

Idle ==
    /\ corpus = <<>>
    /\ op = "idle"
    /\ suggestions = <<>>
    /\ prefix = <<>>
    /\ match_percentage = <<0, 1>>
    /\ max_edit_distance = 0
    /\ text = <<>>
    /\ size = DefaultNGramSize
    /\ sentinel = <<Underscore>>
    /\ out = <<>>
    /\ err = "none"

\* __init__ of the four suggesters
Init ==
    /\ brute = <<>>
    /\ binary = <<>>
    /\ edge = EmptyDict
    /\ ngram = EmptyDict
    /\ ngram_size = DefaultNGramSize
    /\ Idle

\* index(sugg) on each of the four suggesters: the same calls to all of them
IndexCall ==
    /\ op = "idle"
    /\ \E sugg \in BatchesUpTo(Strings, MaxCorpus - Len(corpus)) :
           /\ brute' = BruteIndex(brute, sugg)
           /\ binary' = BinaryIndex(binary, sugg)
           /\ edge' = EdgeIndex(edge, sugg)
           /\ ngram' = NGramIndex(ngram, sugg, ngram_size)
           /\ corpus' = corpus \o sugg
           /\ suggestions' = sugg
    /\ UNCHANGED <<ngram_size, op, prefix, match_percentage, max_edit_distance,
                   text, size, sentinel, out, err>>

\* a search call: the suggesters are read, never written
Searched(name, p, mp, d, result, error) ==
    /\ op' = name
    /\ prefix' = p
    /\ match_percentage' = mp
    /\ max_edit_distance' = d
    /\ out' = result
    /\ err' = error
    /\ UNCHANGED <<brute, binary, edge, ngram, ngram_size, corpus, suggestions,
                   text, size, sentinel>>

BruteSearchCall ==
    /\ op = "idle"
    /\ \E p \in Strings :
           Searched("brute.search", p, <<0, 1>>, 0, BruteSearch(brute, p), "none")

BruteSearchLeveinshteinCall ==
    /\ op = "idle"
    /\ \E p \in Strings, d \in 0..DefaultBruteDistance :
           Searched("brute.search_leveinshtein", p, <<0, 1>>, d,
                    BruteSearchLeveinshtein(brute, p, d), "none")

BinarySearchCall ==
    /\ op = "idle"
    /\ \E p \in Strings :
           Searched("binary.search", p, <<0, 1>>, 0, BinarySearch(binary, p), "none")

EdgeSearchCall ==
    /\ op = "idle"
    /\ \E p \in Strings :
           Searched("edge.search", p, <<0, 1>>, 0, EdgeSearch(edge, p), "none")

Return ==
    /\ op # "idle"
    /\ op' = "idle"
    /\ prefix' = <<>>
    /\ match_percentage' = <<0, 1>>
    /\ max_edit_distance' = 0
    /\ out' = <<>>
    /\ err' = "none"
    /\ UNCHANGED <<brute, binary, edge, ngram, ngram_size, corpus, suggestions,
                   text, size, sentinel>>

Next ==
    \/ IndexCall
    \/ BruteSearchCall
    \/ BruteSearchLeveinshteinCall
    \/ BinarySearchCall
    \/ EdgeSearchCall
    \/ Return

Spec == Init /\ [][Next]_vars

-----------------------------------------------------------------------------
(* NGramSuggester alone, with any ngram_size from 1 to the default *)

NGramInit ==
    /\ brute = <<>>
    /\ binary = <<>>
    /\ edge = EmptyDict
    /\ ngram = EmptyDict
    /\ ngram_size \in 1..DefaultNGramSize
    /\ Idle

NGramIndexCall ==
    /\ op = "idle"
    /\ \E sugg \in BatchesUpTo(NGStrings, NGMaxCorpus - Len(corpus)) :
           /\ ngram' = NGramIndex(ngram, sugg, ngram_size)
           /\ corpus' = corpus \o sugg
           /\ suggestions' = sugg
    /\ UNCHANGED <<brute, binary, edge, ngram_size, op, prefix, match_percentage,
                   max_edit_distance, text, size, sentinel, out, err>>

NGramSearchCall ==
    /\ op = "idle"
    /\ \E p \in NGStrings, mp \in MatchPercentages :
           LET r == NGramSearch(ngram, ngram_size, p, mp)
           IN  Searched("ngram.search", p, mp, 0, r.out, r.err)

NGramSearchLeveinshteinCall ==
    /\ op = "idle"
    /\ \E p \in NGStrings, mp \in MatchPercentages, d \in 1..DefaultNGramDistance :
           LET r == NGramSearchLeveinshtein(ngram, ngram_size, p, mp, d)
           IN  Searched("ngram.search_leveinshtein", p, mp, d, r.out, r.err)

NGramNext ==
    \/ NGramIndexCall
    \/ NGramSearchCall
    \/ NGramSearchLeveinshteinCall
    \/ Return

SpecNGram == NGramInit /\ [][NGramNext]_vars

-----------------------------------------------------------------------------
(* ngrams as a function of its arguments *)

TokInit ==
    /\ brute = <<>>
    /\ binary = <<>>
    /\ edge = EmptyDict
    /\ ngram = EmptyDict
    /\ ngram_size = DefaultNGramSize
    /\ corpus = <<>>
    /\ op = "idle"
    /\ suggestions = <<>>
    /\ prefix = <<>>
    /\ match_percentage = <<0, 1>>
    /\ max_edit_distance = 0
    /\ text \in Strings
    /\ size \in Sizes
    /\ sentinel \in Sentinels
    /\ out = <<>>
    /\ err = "none"

\* list(ngrams(text, size, sentinel)): no statement of the body raises
NGramsCall ==
    /\ op = "idle"
    /\ op' = "ngrams"
    /\ out' = NGrams(text, size, sentinel)
    /\ err' = "none"
    /\ UNCHANGED <<brute, binary, edge, ngram, ngram_size, corpus, suggestions, prefix,
                   match_percentage, max_edit_distance, text, size, sentinel>>

TokNext == NGramsCall

SpecTok == TokInit /\ [][TokNext]_vars

-----------------------------------------------------------------------------
(* Properties *)

IsSorted(xs) == \A i \in 1..(Len(xs) - 1) : ~StrLess(xs[i + 1], xs[i])

Count(xs, x) == Cardinality({i \in 1..Len(xs) : xs[i] = x})

\* C1: after the same index calls, BinarySearchSuggester.search(p) yields the same
\* set of strings as BruteForceSuggester.search(p), which is the set of indexed
\* strings that start with p.
C1_BinaryMatchesBrute ==
    op = "binary.search" =>
        /\ ToSet(out) = ToSet(BruteSearch(brute, prefix))
        /\ ToSet(out) = {s \in ToSet(corpus) :
                            /\ Len(s) >= Len(prefix)
                            /\ \A i \in 1..Len(prefix) : s[i] = prefix[i]}

\* a binary search that matched some entries and not others, on a list the sort reordered
C1_Witness ==
    /\ op = "binary.search"
    /\ out # <<>>
    /\ Len(out) < Len(binary)
    /\ binary # corpus

\* C2: after every index call the list of BinarySearchSuggester is sorted ascending
\* and holds exactly the multiset of the strings passed to index so far.
C2_SortedMultiset ==
    /\ IsSorted(binary)
    /\ Len(binary) = Len(corpus)
    /\ \A k \in 1..Len(corpus) : Count(binary, corpus[k]) = Count(corpus, corpus[k])

\* right after a second, non-empty index call that made a re-sort necessary
C2_Witness ==
    /\ op = "idle"
    /\ suggestions # <<>>
    /\ Len(corpus) > Len(suggestions)
    /\ binary # corpus

\* C3: EdgeNGramSuggester.search(s[0:i]) contains s for every indexed s and every
\* i in [1, len(s)].
C3_EdgeFindsEveryPrefix ==
    op = "edge.search" =>
        \A k \in 1..Len(corpus) : \A i \in 1..Len(corpus[k]) :
            prefix = SubSeq(corpus[k], 1, i) => corpus[k] \in ToSet(out)

\* a search for an indexed string itself, and one for a proper prefix, after two index calls
C3_Witness ==
    /\ op = "edge.search"
    /\ Len(corpus) > Len(suggestions)
    /\ suggestions # <<>>
    /\ \E k \in 1..Len(corpus) : prefix = corpus[k] /\ corpus[k] \in ToSet(out)
    /\ \E k \in 1..Len(corpus) :
           /\ Len(corpus[k]) > Len(prefix)
           /\ prefix = SubSeq(corpus[k], 1, Len(prefix))
           /\ corpus[k] \in ToSet(out)

\* C4: with a corpus of exactly one non-empty string s, search(s, t) yields s for
\* every t < 1.0 and nothing for t = 1.0 (the self-overlap score is exactly 1.0).
C4_SelfOverlapIsOne ==
    (op = "ngram.search" /\ prefix # <<>> /\ corpus = <<prefix>>) =>
        out = IF match_percentage[1] < match_percentage[2] THEN <<prefix>> ELSE <<>>

\* C5: the fuzzy search of BruteForceSuggester with max_edit_distance = 0 yields the
\* same sequence as its exact search.
C5_ZeroDistanceIsExact ==
    (op = "brute.search_leveinshtein" /\ max_edit_distance = 0) =>
        out = BruteSearch(brute, prefix)

\* a fuzzy search at distance 0 that matched, over a list with an entry shorter than the prefix
C5_Witness ==
    /\ op = "brute.search_leveinshtein"
    /\ max_edit_distance = 0
    /\ out # <<>>
    /\ \E k \in 1..Len(brute) : Len(brute[k]) < Len(prefix)

\* C6: for size >= 1 and a one-character sentinel, ngrams emits len(text) windows of
\* length size, the k-th being the substring [k, k + size) of the text left-padded
\* with size - 1 sentinels.
C6_NGramsWindows ==
    (op = "ngrams" /\ size >= 1) =>
        LET padded == [i \in 1..(size - 1 + Len(text)) |->
                          IF i <= size - 1 THEN sentinel[1] ELSE text[i - (size - 1)]]
        IN  /\ Len(out) = Len(text)
            /\ \A k \in 1..Len(out) :
                   /\ Len(out[k]) = size
                   /\ \A j \in 1..size : out[k][j] = padded[k - 1 + j]

\* ngrams("ab", 2, "_") == ["_a", "ab"]
C6_Witness ==
    /\ op = "ngrams"
    /\ text = <<97, 98>>
    /\ size = 2
    /\ sentinel = <<Underscore>>
    /\ out = << <<Underscore, 97>>, <<97, 98>> >>

\* C7: ngrams fails with InvalidArgument whenever size < 1 and emits nothing.
C7_RejectsNonPositiveSize ==
    (op = "ngrams" /\ size < 1) => (err = "InvalidArgument" /\ out = <<>>)

\* C8: the searches of NGramSuggester fail with InvalidArgument on the empty prefix.
C8_EmptyPrefixRejected ==
    (op \in {"ngram.search", "ngram.search_leveinshtein"} /\ prefix = <<>>) =>
        err = "InvalidArgument"

\* C9: index is additive: after any sequence of index calls each suggester is in the
\* state one index call with the concatenation of the arguments leaves a fresh
\* suggester in, and so every search yields what it yields on that suggester.
C9_IndexAdditive ==
    /\ brute = BruteIndex(<<>>, corpus)
    /\ binary = BinaryIndex(<<>>, corpus)
    /\ edge = EdgeIndex(EmptyDict, corpus)
    /\ ngram = NGramIndex(EmptyDict, corpus, ngram_size)
    /\ op = "brute.search" => out = BruteSearch(BruteIndex(<<>>, corpus), prefix)
    /\ op = "binary.search" => out = BinarySearch(BinaryIndex(<<>>, corpus), prefix)
    /\ op = "edge.search" => out = EdgeSearch(EdgeIndex(EmptyDict, corpus), prefix)

\* after index(A) then index(B), both non-empty, B repeating the first string of A
C9_Witness ==
    /\ op = "idle"
    /\ suggestions # <<>>
    /\ Len(corpus) > Len(suggestions)
    /\ corpus[1] = corpus[Len(corpus)]

\* C10: EdgeNGramSuggester.search(p) yields, for a non-empty p, the sequence
\* BruteForceSuggester.search(p) yields after the same index calls (indexing order,
\* once per occurrence), and nothing, without error, for the empty prefix or a
\* prefix that is no key.
C10_EdgeEqualsBrute ==
    op = "edge.search" =>
        /\ err = "none"
        /\ out = IF prefix = <<>> THEN <<>> ELSE BruteSearch(brute, prefix)
        /\ prefix \notin DOMAIN edge => out = <<>>

\* a search that yields two entries in indexing order, which is not the sorted order
C10_Witness ==
    /\ op = "edge.search"
    /\ Len(out) = 2
    /\ StrLess(out[2], out[1])

====
